---------------------------- MODULE Spec2Model ----------------------------
(***************************************************************************)
(* Merkle-drop: a Merkle inclusion-proof library (helpers/merkle) and the  *)
(* CosmWasm contract (contracts/merkle-drop) that stores a root, checks a  *)
(* claim against it and emits a token-factory mint.                        *)
(*                                                                         *)
(* Two specifications share this module:                                   *)
(*   SpecProof  the Proof object of helpers/merkle/src/proof.rs, driven    *)
(*              over trees built from bounded item lists;                  *)
(*   Spec       the contract's entry points over its storage.              *)
(***************************************************************************)
EXTENDS Integers, Sequences, FiniteSets, TLC

VARIABLES
    \* ---- helpers/merkle ----
    tree,       \* the Tree under query: [items, levels]
    proof,      \* the Proof object: Vec<Entry>
    proofFor,   \* history: <<"Some", x>> when proof is find_proof(tree, x) untouched
    edits,      \* history: how the found proof was altered since: <<"none">>, <<"hash", i>>, <<"flag", i>>, <<"push">>
    pushed,     \* history: the (is_left_sibling, hash) arguments of the pushes, in call order
    verified,   \* the last verify call on the current proof: <<"None">> or <<"Some", rec>>
    \* ---- contracts/merkle-drop ----
    CONFIG,     \* storage item CONFIG: <<"None">> or <<"Some", [merkle_root, owner]>>
    CLAIM,      \* storage map CLAIM: claim key -> bool, defined on the saved keys
    version,    \* cw2 contract-version storage item
    last,       \* the last entry-point call: its inputs, what storage held, its result
    mints,      \* history: number of mint submessages emitted per claim key
    paid,       \* history: the <<sender, amount>> pairs whose claim succeeded
    deployed    \* history: the sender and message of the instantiate call

libVars      == <<tree, proof, proofFor, edits, pushed, verified>>
contractVars == <<CONFIG, CLAIM, version, last, mints, paid, deployed>>
vars         == <<tree, proof, proofFor, edits, pushed, verified,
                  CONFIG, CLAIM, version, last, mints, paid, deployed>>

None    == <<"None">>
Some(v) == <<"Some", v>>
IsSome(o) == o[1] = "Some"
IsNone(o) == o[1] = "None"
\* Option::unwrap: panics on None
Unwrap(o) == IF IsSome(o) THEN o[2] ELSE <<"panic">>

(***************************************************************************)
(* Bounds                                                                  *)
(***************************************************************************)
\* longest item list a generated tree is built from
MaxLen == 4
\* most entries a proof is grown to by push
MaxEntries == 2
\* most mint submessages counted per claim key
MaxMints == 2

(***************************************************************************)
(* hash: domain-separated, collision-free digests as free terms            *)
(***************************************************************************)
leaf(data) == <<"leaf", data>>

branch(left, right) == <<"branch", left, right>>

(***************************************************************************)
(* Tree: bottom-up levels, an unpaired last node is carried forward        *)
(***************************************************************************)
OSMO == "OSMO"
ION  == "ION"
WETH == "WETH"
USDC == "USDC"
AKT  == "AKT"

\* the item list of tests::verify_works
TestItems == <<OSMO, ION, WETH, USDC, AKT>>

\* items the generated lists are drawn from
ItemPool == {OSMO, USDC}

NextLevel(lv) ==
    [i \in 1..((Len(lv) + 1) \div 2) |->
        IF 2 * i <= Len(lv) THEN branch(lv[2 * i - 1], lv[2 * i])
                            ELSE lv[2 * i - 1]]

RECURSIVE LevelsFrom(_)
LevelsFrom(lv) ==
    IF Len(lv) <= 1 THEN <<lv>> ELSE <<lv>> \o LevelsFrom(NextLevel(lv))

TreeNew(items) ==
    [items  |-> items,
     levels |-> LevelsFrom([i \in 1..Len(items) |-> leaf(items[i])])]

get_root(t) ==
    IF Len(t.items) = 0 THEN None
    ELSE Some(t.levels[Len(t.levels)][1])

\* first position holding item, 0 when absent
IndexOf(items, item) ==
    IF \E i \in 1..Len(items) : items[i] = item
    THEN CHOOSE i \in 1..Len(items) :
            /\ items[i] = item
            /\ \A j \in 1..(i - 1) : items[j] # item
    ELSE 0

RECURSIVE Path(_, _, _)
Path(levels, lvl, idx) ==
    IF lvl >= Len(levels) THEN <<>>
    ELSE LET lv   == levels[lvl]
             up   == (idx + 1) \div 2
             rest == Path(levels, lvl + 1, up)
         IN  IF idx % 2 = 1 /\ idx = Len(lv) THEN rest
             ELSE IF idx % 2 = 1
                  THEN <<[is_left_sibling |-> FALSE, hash |-> lv[idx + 1]]>> \o rest
                  ELSE <<[is_left_sibling |-> TRUE, hash |-> lv[idx - 1]]>> \o rest

find_proof(t, item) ==
    LET idx == IndexOf(t.items, item)
    IN  IF idx = 0 THEN None ELSE Some(Path(t.levels, 1, idx))

SeqRange(s) == {s[i] : i \in DOMAIN s}

TreeItems(t) == SeqRange(t.items) \cup ItemPool

\* every digest of the tree, and the leaf digest of every known item
Digests(t) ==
    UNION {SeqRange(t.levels[l]) : l \in DOMAIN t.levels}
        \cup {leaf(x) : x \in TreeItems(t)}

\* digests a hand-built proof is pushed from
PushPool == {leaf(x) : x \in ItemPool}

(***************************************************************************)
(* Proof (proof.rs)                                                        *)
(***************************************************************************)
Entry(is_left_sibling, hash) ==
    [is_left_sibling |-> is_left_sibling, hash |-> hash]

ProofDefault == <<>>

\* mutant: the new Entry is put in front of the earlier ones
push_front(p, is_left_sibling, hash) ==
    <<[is_left_sibling |-> is_left_sibling, hash |-> hash]>> \o p

push(p, is_left_sibling, hash) ==
    Append(p, [is_left_sibling |-> is_left_sibling, hash |-> hash])

\* mutant: the two branch arguments the wrong way round
FoldStepSwapped(cur_hash, entry) ==
    IF entry.is_left_sibling
    THEN Some(branch(cur_hash, entry.hash))
    ELSE Some(branch(entry.hash, cur_hash))

\* mutant: the closure gives up on a left sibling
FoldStepPartial(cur_hash, entry) ==
    IF entry.is_left_sibling
    THEN None
    ELSE Some(branch(cur_hash, entry.hash))

\* the closure handed to try_fold
FoldStep(cur_hash, entry) ==
    IF entry.is_left_sibling
    THEN Some(branch(entry.hash, cur_hash))
    ELSE Some(branch(cur_hash, entry.hash))

\* Iterator::try_fold over Option: stops at the first None
RECURSIVE TryFold(_, _, _)
TryFold(p, i, acc) ==
    IF i > Len(p) THEN Some(acc)
    ELSE LET r == FoldStep(acc, p[i])
         IN  IF IsNone(r) THEN None ELSE TryFold(p, i + 1, Unwrap(r))

\* mutant: any completed fold is accepted, the root is never compared
VerifyRunNoCompare(p, data, root) ==
    LET result == TryFold(p, 1, leaf(data))
    IN  IF IsNone(result)
        THEN [ret |-> FALSE, via |-> "none", digest |-> None]
        ELSE [ret |-> TRUE, via |-> "eq", digest |-> result]

\* verify with the branch it returned through: "none" is the early return
VerifyRun(p, data, root) ==
    LET initial_hash == leaf(data)
        result       == TryFold(p, 1, initial_hash)
    IN  IF IsNone(result)
        THEN [ret |-> FALSE, via |-> "none", digest |-> None]
        ELSE [ret |-> Unwrap(result) = root, via |-> "eq", digest |-> result]

verify(p, data, root) == VerifyRun(p, data, root).ret

get_entry_at(p, index) == p[index + 1]

get_num_entries(p) == Len(p)

(***************************************************************************)
(* SpecProof: the library driven over bounded trees                        *)
(***************************************************************************)
RECURSIVE ListsOfLen(_)
ListsOfLen(n) ==
    IF n = 0 THEN {<<>>}
    ELSE {Append(l, x) : l \in ListsOfLen(n - 1), x \in ItemPool}

ItemLists == UNION {ListsOfLen(n) : n \in 1..MaxLen} \cup {TestItems}

ContractIdle ==
    /\ CONFIG = None
    /\ CLAIM = <<>>
    /\ version = None
    /\ last = None
    /\ mints = <<>>
    /\ paid = {}
    /\ deployed = None

InitProof ==
    /\ tree \in {TreeNew(l) : l \in ItemLists}
    /\ proof = ProofDefault
    /\ proofFor = None
    /\ edits = <<"none">>
    /\ pushed = <<>>
    /\ verified = None
    /\ ContractIdle

\* mt.find_proof(&x)
CallFindProof(x) ==
    /\ proof' = (IF IsSome(find_proof(tree, x)) THEN Unwrap(find_proof(tree, x))
                                               ELSE ProofDefault)
    /\ proofFor' = (IF IsSome(find_proof(tree, x)) THEN Some(x) ELSE None)
    /\ edits' = <<"none">>
    /\ pushed' = <<>>
    /\ verified' = None
    /\ UNCHANGED <<tree>>
    /\ UNCHANGED contractVars

\* proof.push(is_left_sibling, hash)
CallPush(is_left_sibling, hash) ==
    /\ get_num_entries(proof) < MaxEntries
    /\ proof' = push(proof, is_left_sibling, hash)
    /\ pushed' = Append(pushed, <<is_left_sibling, hash>>)
    /\ edits' = (IF IsSome(proofFor) THEN <<"push">> ELSE edits)
    /\ verified' = None
    /\ UNCHANGED <<tree, proofFor>>
    /\ UNCHANGED contractVars

\* a holder of the found proof overwrites one Entry's pub hash field
TamperHash(i, hash) ==
    /\ IsSome(proofFor) /\ edits = <<"none">>
    /\ i \in 1..Len(proof)
    /\ hash # proof[i].hash
    /\ proof' = [proof EXCEPT ![i].hash = hash]
    /\ edits' = <<"hash", i>>
    /\ verified' = None
    /\ UNCHANGED <<tree, proofFor, pushed>>
    /\ UNCHANGED contractVars

\* a holder of the found proof flips one Entry's pub is_left_sibling field
TamperFlag(i) ==
    /\ IsSome(proofFor) /\ edits = <<"none">>
    /\ i \in 1..Len(proof)
    /\ proof' = [proof EXCEPT ![i].is_left_sibling = ~proof[i].is_left_sibling]
    /\ edits' = <<"flag", i>>
    /\ verified' = None
    /\ UNCHANGED <<tree, proofFor, pushed>>
    /\ UNCHANGED contractVars

\* proof.verify(&data, &root)
CallVerify(data, root) ==
    /\ verified' = Some([data |-> data, root |-> root,
                         run  |-> VerifyRun(proof, data, root),
                         ret  |-> verify(proof, data, root)])
    /\ UNCHANGED <<tree, proof, proofFor, edits, pushed>>
    /\ UNCHANGED contractVars

NextProof ==
    \/ \E x \in TreeItems(tree) : CallFindProof(x)
    \/ \E b \in BOOLEAN, h \in PushPool : CallPush(b, h)
    \/ \E i \in 1..Len(proof), h \in Digests(tree) : TamperHash(i, h)
    \/ \E i \in 1..Len(proof) : TamperFlag(i)
    \/ \E d \in TreeItems(tree), r \in Digests(tree) : CallVerify(d, r)

SpecProof == InitProof /\ [][NextProof]_vars

(***************************************************************************)
(* Contract (contract.rs): strings are sequences of characters             *)
(***************************************************************************)
MINT_MSG_ID == 1

CONTRACT_NAME == <<"crates.io:merkle-drop">>

CONTRACT_VERSION == <<"CARGO_PKG_VERSION">>

\* env.contract.address
CONTRACT_ADDR == <<"c">>

Ok(v)    == <<"Ok", v>>
Err(e)   == <<"Err", e>>
IsOk(r)  == r[1] = "Ok"
IsErr(r) == r[1] = "Err"

Digits == <<"0", "1", "2", "3", "4", "5", "6", "7", "8", "9">>

\* Uint128's Display: decimal digits, no padding
RECURSIVE DecStr(_)
DecStr(n) ==
    IF n < 10 THEN <<Digits[n + 1]>>
    ELSE DecStr(n \div 10) \o <<Digits[(n % 10) + 1]>>

\* Coin's Display: the amount immediately followed by the denom
CoinToString(coin) == DecStr(coin.amount) \o coin.denom

\* format!("{}{}", sender, amount.to_string())
ClaimKey(sender, amount) == sender \o CoinToString(amount)

\* format!("tokenfactory/{}/{}", owner, subdenom)
TfDenom(owner, subdenom) == <<"tokenfactory", "/">> \o owner \o <<"/">> \o subdenom

\* hex rendering of a digest, and the strings that are not one
HexEncode(d) == <<"hex", d>>

HexDecode(str) == IF Len(str) = 2 /\ str[1] = "hex" THEN Some(str[2]) ELSE None

\* the transport string of a Proof, and the strings that are not one
ProofToStr(p) == <<"proof", p>>

ProofFromStr(str) == IF Len(str) = 2 /\ str[1] = "proof" THEN Some(str[2]) ELSE None

\* to_binary / from_binary
ToBinary(v) == <<"binary", v>>

FromBinary(b) == b[2]

Response(attributes, messages) == [attributes |-> attributes, messages |-> messages]

ResponseDefault == Response(<<>>, <<>>)

\* execute::verify_proof: decode the stored root and the proof string, then Proof::verify
verify_proof(merkle_root, proof_str, claim_key) ==
    LET root == HexDecode(merkle_root)
        prf  == ProofFromStr(proof_str)
    IN  IF IsNone(root) THEN Err(<<"FailedToDecodeRoot", merkle_root>>)
        ELSE IF IsNone(prf) THEN Err(<<"Std", "ParseErr">>)
        ELSE IF verify(Unwrap(prf), claim_key, Unwrap(root)) THEN Ok(<<>>)
        ELSE Err(<<"FailedVerifyProof">>)

\* mutant: the config is saved with an empty root instead of the message's
instantiate_unsaved(sender, msg) ==
    [result  |-> Ok(Response(<<<<"method", "instantiate">>, <<"owner", sender>>>>, <<>>)),
     CONFIG  |-> Some([merkle_root |-> <<>>, owner |-> sender]),
     version |-> Some(<<CONTRACT_NAME, CONTRACT_VERSION>>)]

instantiate(sender, msg) ==
    LET cfg == [merkle_root |-> msg.merkle_root, owner |-> sender]
    IN  [result  |-> Ok(Response(<<<<"method", "instantiate">>, <<"owner", sender>>>>, <<>>)),
         CONFIG  |-> Some(cfg),
         version |-> Some(<<CONTRACT_NAME, CONTRACT_VERSION>>)]

\* mutant: the sender is never compared with the owner
set_denom_anyone(cfg, sender, subdenom, answer) ==
    IF IsErr(answer) THEN Err(<<"Std", "QuerierErr">>)
    ELSE IF IsNone(answer[2].authority_metadata)
         THEN Err(<<"Std", "invalid authority metadata">>)
         ELSE IF Unwrap(answer[2].authority_metadata).admin = cfg.owner
              THEN Err(<<"Unauthorized">>)
              ELSE Ok(ResponseDefault)

\* answer is the chain's reply to the denom_authority_metadata query
set_denom(cfg, sender, subdenom, answer) ==
    IF cfg.owner # sender THEN Err(<<"Unauthorized">>)
    ELSE IF IsErr(answer) THEN Err(<<"Std", "QuerierErr">>)
    ELSE LET response == answer[2]
         IN  IF IsNone(response.authority_metadata)
             THEN Err(<<"Std", "invalid authority metadata">>)
             ELSE LET auth_metadata == Unwrap(response.authority_metadata)
                  IN  IF auth_metadata.admin = cfg.owner
                      THEN Err(<<"Unauthorized">>)
                      ELSE Ok(ResponseDefault)

MsgMint(amount) ==
    [sender |-> CONTRACT_ADDR,
     amount |-> Some([denom |-> amount.denom, amount |-> DecStr(amount.amount)])]

\* SubMsg::reply_always
SubMsgReplyAlways(msg, id) == [msg |-> msg, id |-> id, reply_on |-> "Always"]

may_load(map, key) == IF key \in DOMAIN map THEN Some(map[key]) ELSE None

save(map, key, value) == [k \in DOMAIN map \cup {key} |-> IF k = key THEN value ELSE map[k]]

\* mutant: the claim is never looked up before the proof is checked
claim_unchecked(cfg, store, sender, proof_str, amount) ==
    LET key   == ClaimKey(sender, amount)
        check == verify_proof(cfg.merkle_root, proof_str, key)
    IN  IF IsErr(check) THEN [result |-> check, CLAIM |-> store]
        ELSE [result |-> Ok(Response(<<<<"action", "claim">>>>,
                                     <<SubMsgReplyAlways(MsgMint(amount), MINT_MSG_ID)>>)),
              CLAIM  |-> save(store, key, TRUE)]

\* mutant: the mint is emitted but the claim is never saved
claim_unsaved(cfg, store, sender, proof_str, amount) ==
    LET key   == ClaimKey(sender, amount)
        check == verify_proof(cfg.merkle_root, proof_str, key)
    IN  IF IsSome(may_load(store, key))
        THEN [result |-> Err(<<"AlreadyClaimed", key>>), CLAIM |-> store]
        ELSE IF IsErr(check) THEN [result |-> check, CLAIM |-> store]
        ELSE [result |-> Ok(Response(<<<<"action", "claim">>>>,
                                     <<SubMsgReplyAlways(MsgMint(amount), MINT_MSG_ID)>>)),
              CLAIM  |-> store]

\* mutant: the claim is saved before the proof is checked
claim_saves_early(cfg, store, sender, proof_str, amount) ==
    LET key   == ClaimKey(sender, amount)
        check == verify_proof(cfg.merkle_root, proof_str, key)
    IN  IF IsSome(may_load(store, key))
        THEN [result |-> Err(<<"AlreadyClaimed", key>>), CLAIM |-> store]
        ELSE IF IsErr(check) THEN [result |-> check, CLAIM |-> save(store, key, TRUE)]
        ELSE [result |-> Ok(Response(<<<<"action", "claim">>>>,
                                     <<SubMsgReplyAlways(MsgMint(amount), MINT_MSG_ID)>>)),
              CLAIM  |-> save(store, key, TRUE)]

\* mutant: the proof is never checked
claim_unverified(cfg, store, sender, proof_str, amount) ==
    LET key == ClaimKey(sender, amount)
    IN  IF IsSome(may_load(store, key))
        THEN [result |-> Err(<<"AlreadyClaimed", key>>), CLAIM |-> store]
        ELSE [result |-> Ok(Response(<<<<"action", "claim">>>>,
                                     <<SubMsgReplyAlways(MsgMint(amount), MINT_MSG_ID)>>)),
              CLAIM  |-> save(store, key, TRUE)]

claim(cfg, store, sender, proof_str, amount) ==
    LET key         == ClaimKey(sender, amount)
        claim_check == may_load(store, key)
        check       == verify_proof(cfg.merkle_root, proof_str, key)
    IN  IF IsSome(claim_check)
        THEN [result |-> Err(<<"AlreadyClaimed", key>>), CLAIM |-> store]
        ELSE IF IsErr(check) THEN [result |-> check, CLAIM |-> store]
        ELSE [result |-> Ok(Response(<<<<"action", "claim">>>>,
                                     <<SubMsgReplyAlways(MsgMint(amount), MINT_MSG_ID)>>)),
              CLAIM  |-> save(store, key, TRUE)]

\* reply::handle_mint_reply
handle_mint_reply(msg) ==
    IF IsOk(msg.result) THEN Ok(ResponseDefault) ELSE Err(<<"FailedToMint">>)

\* mutant: every reply id is handed to the mint-reply handler
reply_any(msg) == handle_mint_reply(msg)

reply(msg) ==
    IF msg.id = MINT_MSG_ID THEN handle_mint_reply(msg)
    ELSE Err(<<"UnknownReplyId", msg.id>>)

query_root(cfgOpt) ==
    IF IsNone(cfgOpt) THEN Err(<<"Std", "NotFound">>)
    ELSE Ok([root |-> Unwrap(cfgOpt).merkle_root])

\* QueryMsg has the one variant GetRoot; any other message fails to parse
query(cfgOpt, msg) ==
    IF msg = "get_root"
    THEN IF IsErr(query_root(cfgOpt)) THEN query_root(cfgOpt)
         ELSE Ok(ToBinary(query_root(cfgOpt)[2]))
    ELSE Err(<<"Std", "ParseErr">>)

(***************************************************************************)
(* Spec: the contract's entry points over its storage                      *)
(***************************************************************************)
Addrs == {<<"a">>, <<"a", "1">>, <<"b">>}

Coin(amount, denom) == [denom |-> denom, amount |-> amount]

Coins == {Coin(1, <<"u">>), Coin(11, <<"u">>)}

Subdenoms == {<<"u">>}

\* the list the published root commits to: (address, amount) rows
AirdropList ==
    << [address |-> <<"a">>, amount |-> Coin(11, <<"u">>)],
       [address |-> <<"b">>, amount |-> Coin(1, <<"u">>)],
       [address |-> <<"a">>, amount |-> Coin(1, <<"u">>)] >>

AirdropItems ==
    [i \in DOMAIN AirdropList |-> ClaimKey(AirdropList[i].address, AirdropList[i].amount)]

AirdropTree == TreeNew(AirdropItems)

AirdropRoot == Unwrap(get_root(AirdropTree))

\* roots an instantiate message may carry
RootStrs ==
    {HexEncode(AirdropRoot), HexEncode(leaf(AirdropItems[2])), <<"not-hex">>}

\* proof strings a claim message may carry
ProofStrs ==
    {ProofToStr(Unwrap(find_proof(AirdropTree, AirdropItems[i]))) : i \in DOMAIN AirdropItems}
        \cup {ProofToStr(ProofDefault), <<"not-a-proof">>}

\* what the chain may answer to the denom_authority_metadata query
AuthorityAnswers ==
    {Err(<<"QuerierErr">>), Ok([authority_metadata |-> None])}
        \cup {Ok([authority_metadata |-> Some([admin |-> a])]) : a \in Addrs \cup {<<>>}}

ReplyIds == {0, MINT_MSG_ID, 2}

SubMsgResults == {Ok(<<>>), Err(<<"mint failed">>)}

QueryMsgs == {"get_root", "get_subdenom"}

AllKeys == {ClaimKey(a, c) : a \in Addrs, c \in Coins}

LibIdle ==
    /\ tree = TreeNew(<<>>)
    /\ proof = ProofDefault
    /\ proofFor = None
    /\ edits = <<"none">>
    /\ pushed = <<>>
    /\ verified = None

Init ==
    /\ CONFIG = None
    /\ CLAIM = <<>>
    /\ version = None
    /\ last = None
    /\ mints = [k \in AllKeys |-> 0]
    /\ paid = {}
    /\ deployed = None
    /\ LibIdle

Cfg == Unwrap(CONFIG)

Instantiate(sender, msg) ==
    /\ IsNone(CONFIG)
    /\ CONFIG' = instantiate(sender, msg).CONFIG
    /\ version' = instantiate(sender, msg).version
    /\ last' = Some([op |-> "instantiate", sender |-> sender, msg |-> msg,
                     result |-> instantiate(sender, msg).result])
    /\ deployed' = Some([sender |-> sender, msg |-> msg])
    /\ UNCHANGED <<CLAIM, mints, paid>>
    /\ UNCHANGED libVars

\* ExecuteMsg::SetDenom { subdenom }
ExecuteSetDenom(sender, subdenom, answer) ==
    /\ IsSome(CONFIG)
    /\ last' = Some([op |-> "set_denom", sender |-> sender, subdenom |-> subdenom,
                     denom |-> TfDenom(Cfg.owner, subdenom), answer |-> answer,
                     result |-> set_denom(Cfg, sender, subdenom, answer)])
    /\ UNCHANGED <<CONFIG, CLAIM, version, mints, paid, deployed>>
    /\ UNCHANGED libVars

\* history: the call just before was a claim of this key refused for its proof
RejectedJustBefore(key) ==
    /\ IsSome(last)
    /\ Unwrap(last).op = "claim"
    /\ Unwrap(last).key = key
    /\ Unwrap(last).result = Err(<<"FailedVerifyProof">>)

\* mutant: a successful claim also saves the config with the claimant as owner
ExecuteClaimClobbers(sender, proof_str, amount) ==
    LET key == ClaimKey(sender, amount)
        out == claim(Cfg, CLAIM, sender, proof_str, amount)
    IN  /\ IsSome(CONFIG)
        /\ mints[key] < MaxMints
        /\ CLAIM' = out.CLAIM
        /\ CONFIG' = (IF IsOk(out.result)
                      THEN Some([merkle_root |-> Cfg.merkle_root, owner |-> sender])
                      ELSE CONFIG)
        /\ mints' = (IF IsOk(out.result)
                     THEN [mints EXCEPT ![key] = @ + Len(out.result[2].messages)]
                     ELSE mints)
        /\ paid' = (IF IsOk(out.result) THEN paid \cup {<<sender, amount>>} ELSE paid)
        /\ last' = Some([op |-> "claim", sender |-> sender, proof_str |-> proof_str,
                         amount |-> amount, key |-> key,
                         was_claimed |-> key \in DOMAIN CLAIM,
                         paid_before |-> <<sender, amount>> \in paid,
                         after_rejection |-> RejectedJustBefore(key),
                         result |-> out.result])
        /\ UNCHANGED <<version, deployed>>
        /\ UNCHANGED libVars

\* ExecuteMsg::Claim { proof, amount }
ExecuteClaim(sender, proof_str, amount) ==
    LET key == ClaimKey(sender, amount)
        out == claim(Cfg, CLAIM, sender, proof_str, amount)
    IN  /\ IsSome(CONFIG)
        /\ mints[key] < MaxMints
        /\ CLAIM' = out.CLAIM
        /\ mints' = (IF IsOk(out.result)
                     THEN [mints EXCEPT ![key] = @ + Len(out.result[2].messages)]
                     ELSE mints)
        /\ paid' = (IF IsOk(out.result) THEN paid \cup {<<sender, amount>>} ELSE paid)
        /\ last' = Some([op |-> "claim", sender |-> sender, proof_str |-> proof_str,
                         amount |-> amount, key |-> key,
                         was_claimed |-> key \in DOMAIN CLAIM,
                         paid_before |-> <<sender, amount>> \in paid,
                         after_rejection |-> RejectedJustBefore(key),
                         result |-> out.result])
        /\ UNCHANGED <<CONFIG, version, deployed>>
        /\ UNCHANGED libVars

Reply(msg) ==
    /\ IsSome(CONFIG)
    /\ last' = Some([op |-> "reply", msg |-> msg, result |-> reply(msg)])
    /\ UNCHANGED <<CONFIG, CLAIM, version, mints, paid, deployed>>
    /\ UNCHANGED libVars

Query(msg) ==
    /\ IsSome(CONFIG)
    /\ last' = Some([op |-> "query", msg |-> msg, result |-> query(CONFIG, msg)])
    /\ UNCHANGED <<CONFIG, CLAIM, version, mints, paid, deployed>>
    /\ UNCHANGED libVars

Next ==
    \/ \E s \in Addrs, r \in RootStrs : Instantiate(s, [merkle_root |-> r])
    \/ \E s \in Addrs, d \in Subdenoms, a \in AuthorityAnswers : ExecuteSetDenom(s, d, a)
    \/ \E s \in Addrs, p \in ProofStrs, c \in Coins : ExecuteClaim(s, p, c)
    \/ \E i \in ReplyIds, r \in SubMsgResults : Reply([id |-> i, result |-> r])
    \/ \E m \in QueryMsgs : Query(m)

Spec == Init /\ [][Next]_vars

(***************************************************************************)
(* Properties of the proof library (checked under SpecProof)               *)
(***************************************************************************)
Root == Unwrap(get_root(tree))

V == Unwrap(verified)

\* proof is exactly what find_proof returned for x
FoundFor(x) == proofFor = Some(x) /\ edits = <<"none">>

\* the last call was verify(x, root of the tree) on the current proof
VerifiedAgainstRoot(x) == IsSome(verified) /\ V.data = x /\ V.root = Root

\* the fold of section 4.3: plain left-to-right, no early exit
RECURSIVE RefFold(_, _, _)
RefFold(p, n, current) ==
    IF n = 0 THEN current
    ELSE LET c == RefFold(p, n - 1, current)
         IN  IF p[n].is_left_sibling THEN branch(p[n].hash, c)
                                     ELSE branch(c, p[n].hash)

\* C1 (completeness): the proof find_proof returns for an item x of the list
\* verifies x against the root of the tree built from the list.
C1_Completeness ==
    \A x \in SeqRange(tree.items) :
        (FoundFor(x) /\ VerifiedAgainstRoot(x)) => V.ret = TRUE

\* the carried-forward last item of the five-item list verifies
C1_Witness ==
    /\ tree.items = TestItems
    /\ FoundFor(AKT) /\ VerifiedAgainstRoot(AKT)
    /\ Len(proof) = 1
    /\ V.ret = TRUE

\* C2 (soundness): the proof found for x does not verify another item y of
\* the list, y # x, against the root.
C2_Soundness ==
    \A x, y \in SeqRange(tree.items) :
        (y # x /\ FoundFor(x) /\ VerifiedAgainstRoot(y)) => V.ret = FALSE

\* tests::verify_works: the USDC proof does not verify OSMO
C2_Witness ==
    /\ tree.items = TestItems
    /\ FoundFor(USDC) /\ VerifiedAgainstRoot(OSMO)
    /\ V.ret = FALSE

\* C3 (root mismatch): a valid (item, proof) pair verifies against a digest r
\* only when r is the root of the tree; in the five-item tree the USDC proof
\* does not verify against leaf(USDC).
C3_RootMismatch ==
    /\ \A x \in SeqRange(tree.items) :
          (FoundFor(x) /\ IsSome(verified) /\ V.data = x)
              => (V.ret = TRUE <=> V.root = Root)
    /\ (tree.items = TestItems /\ FoundFor(USDC) /\ IsSome(verified)
            /\ V.data = USDC /\ V.root = leaf(USDC)) => V.ret = FALSE

C3_Witness ==
    /\ tree.items = TestItems
    /\ FoundFor(USDC) /\ IsSome(verified)
    /\ V.data = USDC /\ V.root = leaf(USDC)
    /\ V.ret = FALSE

\* the found proof for x with exactly one Entry altered, verified for x
\* against the original root
TamperedHash(x, i) ==
    proofFor = Some(x) /\ edits = <<"hash", i>> /\ VerifiedAgainstRoot(x)

TamperedFlag(x, i) ==
    proofFor = Some(x) /\ edits = <<"flag", i>> /\ VerifiedAgainstRoot(x)

\* C4 as stated (tamper sensitivity): replacing one Entry's sibling digest or
\* flipping one Entry's side flag in the valid proof for x makes verify
\* return false against the original root.
C4_AsStated ==
    \A x \in SeqRange(tree.items) : \A i \in 1..Len(proof) :
        (TamperedHash(x, i) \/ TamperedFlag(x, i)) => V.ret = FALSE

\* the items of the list are pairwise distinct
DistinctItems(items) ==
    \A i, j \in DOMAIN items : items[i] = items[j] => i = j

\* C4 amended: a replaced sibling digest always makes verify return false; a
\* flipped side flag makes verify return false exactly when that Entry's
\* sibling digest differs from the path digest it is combined with, which is
\* always the case when the items of the list are pairwise distinct.
C4_TamperSensitivity ==
    \A x \in SeqRange(tree.items) : \A i \in 1..Len(proof) :
        /\ TamperedHash(x, i) => V.ret = FALSE
        /\ TamperedFlag(x, i) =>
              (V.ret = FALSE <=> proof[i].hash # RefFold(proof, i - 1, leaf(x)))
        /\ (TamperedFlag(x, i) /\ DistinctItems(tree.items)) => V.ret = FALSE

\* a flipped flag is caught in the middle of the USDC proof of the five-item tree
C4_Witness ==
    /\ tree.items = TestItems
    /\ Len(proof) = 3
    /\ TamperedFlag(USDC, 2)
    /\ proof[2].hash # RefFold(proof, 1, leaf(USDC))
    /\ V.ret = FALSE

\* C6 (reference fold): verify returns true exactly when folding the entries
\* in order from leaf(item), sibling on the side its flag names, ends at the
\* expected root.
C6_ReferenceFold ==
    IsSome(verified) =>
        V.ret = (RefFold(proof, Len(proof), leaf(V.data)) = V.root)

\* a three-entry proof with siblings on both sides folds to the root
C6_Witness ==
    /\ IsSome(verified) /\ V.ret = TRUE
    /\ Len(proof) = 3
    /\ \E i, j \in 1..Len(proof) :
          proof[i].is_left_sibling /\ ~proof[j].is_left_sibling

\* C7 (single leaf): for a one-item list the root is the item's leaf digest
\* and its proof has no entries; an empty proof verifies an item against r
\* exactly when r is the item's leaf digest.
C7_SingleLeaf ==
    /\ Len(tree.items) = 1 =>
          /\ get_root(tree) = Some(leaf(tree.items[1]))
          /\ FoundFor(tree.items[1]) => get_num_entries(proof) = 0
    /\ (IsSome(verified) /\ get_num_entries(proof) = 0)
          => (V.ret = TRUE <=> V.root = leaf(V.data))

C7_Witness ==
    /\ Len(tree.items) = 1
    /\ FoundFor(tree.items[1])
    /\ get_num_entries(proof) = 0
    /\ VerifiedAgainstRoot(tree.items[1])
    /\ V.root = leaf(tree.items[1])
    /\ V.ret = TRUE

\* C8 (totality): verify always returns a boolean, through the comparison
\* with the root and never through the early return, so false means the
\* recomputed digest differs from the root.
C8_Total ==
    IsSome(verified) =>
        /\ V.ret \in BOOLEAN
        /\ V.run.via = "eq"
        /\ IsSome(V.run.digest)
        /\ V.ret = FALSE => Unwrap(V.run.digest) # V.root

\* a false verdict on the empty proof comes from the comparison
C8_Witness ==
    /\ IsSome(verified)
    /\ get_num_entries(proof) = 0
    /\ V.ret = FALSE
    /\ V.run.via = "eq"

(***************************************************************************)
(* Properties of the contract (checked under Spec)                         *)
(***************************************************************************)
L == Unwrap(last)

LastIs(op) == IsSome(last) /\ L.op = op

\* C5 (replay protection): once a claim by a sender for an amount has
\* succeeded, every later claim by that sender for that amount returns
\* AlreadyClaimed whatever the proof, with no mint message; no claim key ever
\* has more than one mint emitted for it.
C5_ReplayProtection ==
    /\ (LastIs("claim") /\ L.paid_before)
          => L.result = Err(<<"AlreadyClaimed", ClaimKey(L.sender, L.amount)>>)
    /\ \A k \in DOMAIN mints : mints[k] <= 1

\* a second claim carrying the proof that succeeded the first time is refused
C5_Witness ==
    /\ LastIs("claim") /\ L.paid_before
    /\ CONFIG = Some([merkle_root |-> HexEncode(AirdropRoot), owner |-> <<"a">>])
    /\ L.sender = <<"b">>
    /\ L.proof_str = ProofToStr(Unwrap(find_proof(AirdropTree, L.key)))
    /\ L.result = Err(<<"AlreadyClaimed", L.key>>)
    /\ mints[L.key] = 1

\* C9 (initialization): instantiate with merkle root r emits no messages and
\* the GetRoot query then returns exactly r.
C9_ProperInitialization ==
    LastIs("instantiate") =>
        /\ IsOk(L.result)
        /\ Len(L.result[2].messages) = 0
        /\ IsOk(query(CONFIG, "get_root"))
        /\ FromBinary(query(CONFIG, "get_root")[2]) = [root |-> L.msg.merkle_root]

C9_Witness ==
    /\ LastIs("instantiate")
    /\ L.msg.merkle_root = HexEncode(AirdropRoot)
    /\ FromBinary(query(CONFIG, "get_root")[2]).root = HexEncode(AirdropRoot)

\* the owner sets a subdenom whose token-factory denom exists with the owner
\* as its admin
OwnerSetsValidSubdenom ==
    /\ LastIs("set_denom")
    /\ L.sender = Cfg.owner
    /\ L.answer = Ok([authority_metadata |-> Some([admin |-> Cfg.owner])])

\* C10 (set_denom success case): when the owner executes set_denom with a
\* valid subdenom the execution succeeds, and the subdenom query then returns
\* the subdenom that was set.
C10_SetDenomSuccess ==
    OwnerSetsValidSubdenom =>
        /\ IsOk(L.result)
        /\ query(CONFIG, "get_subdenom") = Ok(ToBinary([subdenom |-> L.subdenom]))

\* the owner asks, and the chain answers the authority-metadata query
OwnerAsks == LastIs("set_denom") /\ L.sender = Cfg.owner /\ IsOk(L.answer)

\* the answer carries authority metadata whose admin is the contract owner
OwnerIsAdmin ==
    /\ IsSome(L.answer[2].authority_metadata)
    /\ Unwrap(L.answer[2].authority_metadata).admin = Cfg.owner

\* C11 (admin validation): called by the owner, set_denom queries the denom
\* tokenfactory/<owner>/<subdenom> and succeeds when its authority metadata
\* exists with the owner as admin, and is rejected when the metadata is
\* absent or the admin is another address.
C11_SetDenomValidatesAdmin ==
    OwnerAsks =>
        /\ L.denom = TfDenom(Cfg.owner, L.subdenom)
        /\ IsOk(L.result) <=> OwnerIsAdmin

\* C12 (unauthorized sender): set_denom sent by an address other than the
\* owner returns Unauthorized whatever the subdenom and the authority
\* metadata, writes no storage and emits no message.
C12_SetDenomUnauthorized ==
    [][(LastIs("set_denom")' /\ L'.sender # Cfg.owner)
          => /\ L'.result = Err(<<"Unauthorized">>)
             /\ UNCHANGED <<CONFIG, CLAIM, version>>]_vars

\* a stranger who is the denom's admin is still turned away
C12_Witness ==
    /\ LastIs("set_denom")
    /\ L.sender # Cfg.owner
    /\ L.answer = Ok([authority_metadata |-> Some([admin |-> L.sender])])
    /\ L.result = Err(<<"Unauthorized">>)

\* the proof string of the last claim decodes to a proof that verifies the
\* claim item against the stored root
ProofVerifies ==
    LET root == HexDecode(Cfg.merkle_root)
        prf  == ProofFromStr(L.proof_str)
    IN  /\ IsSome(root)
        /\ IsSome(prf)
        /\ verify(Unwrap(prf), ClaimKey(L.sender, L.amount), Unwrap(root))

\* the submessages of an Ok result
Messages(result) == result[2].messages

\* C13 (successful claim): a claim not made before whose proof verifies the
\* item sender ++ amount against the stored root saves the claim key and
\* emits exactly one submessage, with reply id MINT_MSG_ID, minting the
\* amount's denom and amount from the contract's own address.
C13_SuccessfulClaim ==
    (LastIs("claim") /\ ~L.was_claimed /\ ProofVerifies) =>
        /\ IsOk(L.result)
        /\ L.key = ClaimKey(L.sender, L.amount)
        /\ L.key \in DOMAIN CLAIM
        /\ CLAIM[L.key] = TRUE
        /\ Len(Messages(L.result)) = 1
        /\ Messages(L.result)[1].id = MINT_MSG_ID
        /\ Messages(L.result)[1].msg.sender = CONTRACT_ADDR
        /\ Messages(L.result)[1].msg.amount
              = Some([denom |-> L.amount.denom, amount |-> DecStr(L.amount.amount)])

\* the two-digit amount of the first airdrop row is claimed
C13_Witness ==
    /\ LastIs("claim") /\ ~L.was_claimed /\ ProofVerifies
    /\ L.sender = AirdropList[1].address
    /\ L.amount = AirdropList[1].amount
    /\ Messages(L.result)[1].msg.amount = Some([denom |-> <<"u">>, amount |-> <<"1", "1">>])
    /\ DOMAIN CLAIM = {L.key}

\* C14 (failed claim): a claim that returns an error, AlreadyClaimed or a
\* failed proof verification, changes neither the claimed set nor the config
\* and emits no mint; a claim refused for its proof succeeds when it is made
\* again with a proof that verifies.
C14_FailedClaimFrame ==
    [][/\ (LastIs("claim")' /\ IsErr(L'.result))
            => UNCHANGED <<CONFIG, CLAIM, version, mints, paid>>
       /\ (LastIs("claim")' /\ L'.after_rejection /\ ProofVerifies')
            => (IsOk(L'.result) /\ L'.key \in DOMAIN CLAIM')]_vars

\* right after being refused for its proof, the same claim goes through
C14_Witness ==
    /\ LastIs("claim")
    /\ L.after_rejection
    /\ ProofVerifies
    /\ IsOk(L.result)
    /\ mints[L.key] = 1

\* C15 (claimed set): a key enters the claimed set only through a claim of
\* that exact key whose proof verified against the stored root, and no
\* set_denom, claim, reply or query ever removes a key.
C15_ClaimedSetInvariant ==
    [][/\ DOMAIN CLAIM \subseteq DOMAIN CLAIM'
       /\ \A k \in DOMAIN CLAIM' \ DOMAIN CLAIM :
             /\ LastIs("claim")'
             /\ L'.key = k
             /\ CLAIM'[k] = TRUE
             /\ ProofVerifies']_vars

\* all three airdrop rows are claimed and stay recorded through a failed reply
C15_Witness ==
    /\ DOMAIN CLAIM = SeqRange(AirdropItems)
    /\ LastIs("reply")
    /\ L.msg.id = MINT_MSG_ID
    /\ IsErr(L.result)

D == Unwrap(deployed)

\* C16 (config frame): once instantiated, the stored root and owner are those
\* of the instantiate call whatever set_denom, claim, reply and query calls
\* follow, and GetRoot returns that root.
C16_ConfigNeverChanges ==
    IsSome(deployed) =>
        /\ CONFIG = Some([merkle_root |-> D.msg.merkle_root, owner |-> D.sender])
        /\ query(CONFIG, "get_root") = Ok(ToBinary([root |-> D.msg.merkle_root]))

\* GetRoot still answers the instantiate root after a claim by someone else
C16_Witness ==
    /\ IsSome(deployed)
    /\ D.msg.merkle_root = HexEncode(AirdropRoot)
    /\ \E pair \in paid : pair[1] # D.sender
    /\ LastIs("query") /\ L.msg = "get_root"
    /\ L.result = Ok(ToBinary([root |-> HexEncode(AirdropRoot)]))

\* the rows of the airdrop list, as <<sender, amount>> pairs
AirdropPairs == {<<AirdropList[i].address, AirdropList[i].amount>> : i \in DOMAIN AirdropList}

\* a claim is refused as AlreadyClaimed only for a pair that was paid
BlockedOnlyIfPaid ==
    (LastIs("claim") /\ L.result = Err(<<"AlreadyClaimed", L.key>>)) => L.paid_before

\* C17 (claim key injective): the claim item, sender immediately followed by
\* the amount's string form, is made by one (sender, amount) pair only, so a
\* claim is refused as AlreadyClaimed only when that very pair was paid, and
\* under the airdrop root only a pair of the list is paid.
C17_ClaimKeyInjective ==
    LastIs("claim") =>
        /\ IsOk(L.result) =>
              \A s \in Addrs, c \in Coins :
                 ClaimKey(s, c) = L.key => <<s, c>> = <<L.sender, L.amount>>
        /\ BlockedOnlyIfPaid
        /\ (IsOk(L.result) /\ Cfg.merkle_root = HexEncode(AirdropRoot))
              => <<L.sender, L.amount>> \in AirdropPairs

\* C18 (reply ids): a reply whose id is not MINT_MSG_ID returns UnknownReplyId
\* with that id and writes no storage; the id MINT_MSG_ID alone gets the
\* mint-reply handler's answer.
C18_ReplyIds ==
    [][LastIs("reply")' =>
          IF L'.msg.id = MINT_MSG_ID
          THEN L'.result = handle_mint_reply(L'.msg)
          ELSE /\ L'.result = Err(<<"UnknownReplyId", L'.msg.id>>)
               /\ UNCHANGED <<CONFIG, CLAIM, version>>]_vars

\* a failed submessage reported under id 2 is not taken for a failed mint
C18_Witness ==
    /\ LastIs("reply")
    /\ L.msg.id = 2
    /\ IsErr(L.msg.result)
    /\ L.result = Err(<<"UnknownReplyId", 2>>)

(***************************************************************************)
(* Proof::push (checked under SpecProof)                                   *)
(***************************************************************************)
\* the Entries the pushes made so far were called with, in call order
PushedEntries ==
    [i \in 1..Len(pushed) |-> [is_left_sibling |-> pushed[i][1], hash |-> pushed[i][2]]]

\* C19 (push appends): after n pushes on a default proof get_num_entries is n
\* and get_entry_at(i) is the Entry of push i + 1, so earlier entries are
\* neither altered nor reordered and verify folds them in push order.
C19_PushAppends ==
    IsNone(proofFor) =>
        /\ get_num_entries(proof) = Len(pushed)
        /\ \A i \in 0..(Len(pushed) - 1) : get_entry_at(proof, i) = PushedEntries[i + 1]
        /\ IsSome(verified) =>
              V.run.digest = Some(RefFold(PushedEntries, Len(pushed), leaf(V.data)))

\* two different pushes build a proof that verifies against the tree's root
C19_Witness ==
    /\ IsNone(proofFor)
    /\ Len(pushed) = 2
    /\ pushed[1] # pushed[2]
    /\ get_entry_at(proof, 1) = PushedEntries[2]
    /\ IsSome(verified) /\ V.root = Root /\ V.ret = TRUE

=============================================================================
